---- MODULE Spec2Model ----
(***************************************************************************)
(* A model of xiaomi-avbroot.py: the pack subcommand (dependency order,    *)
(* descriptor propagation, chain verification, container assembly) and     *)
(* the unpack subcommand (vbmeta images first, then the LP slots, then the *)
(* remaining images).  The external avbroot tool is modelled by what the   *)
(* script relies on: every call may fail, and a successful pack rewrites   *)
(* avb.toml with the recomputed digest and the signing key's public key.   *)
(***************************************************************************)
EXTENDS Integers, Sequences, FiniteSets, TLC

VARIABLES
    action,             \* args.action: "pack" or "unpack"
    pc,                 \* position of the running subcommand
    err,                \* the exception that ended the run, "none" otherwise
    input_files,        \* the avb.toml files as the run found them (pack)
    files,              \* <dir>/<name>/avb.toml: name -> metadata record
    todo,               \* what is left of the loop over a set (unpack)
    avb_pack_order,     \* list(TopologicalSorter(avb_dep_graph).static_order())
    idx,                \* position of the pack loop in avb_pack_order
    avb_descriptors,    \* dict: partition name -> descriptor
    avb_public_keys,    \* dict: partition name -> public key
    calls,              \* the avbroot invocations made so far, in order
    pack_calls,         \* for every avb_pack call: name and the avb.toml it was given
    out_images,         \* output_dir/<name>.img files
    lp_info,            \* lp.toml: the slot names in manifest order
    lp_idx,             \* position of the slot loop in lp_info
    lp_images_dir,      \* lp_images/<slot>.img: slot name -> content
    lp_images,          \* the set lp_images of unpack_subcommand
    vbmeta_images       \* the set vbmeta_images of unpack_subcommand

vars == <<action, pc, err, input_files, files, todo, avb_pack_order, idx,
          avb_descriptors, avb_public_keys, calls, pack_calls, out_images,
          lp_info, lp_idx, lp_images_dir, lp_images, vbmeta_images>>

(***************************************************************************)
(* Bounds of the model.                                                    *)
(***************************************************************************)
\* the descriptors of all avb.toml files of a run together
MaxDescs == 2
\* the slots of a container manifest
MaxSlots == 2
\* the super.img.* chunks of the input directory
MaxChunks == 2

\* the partition names of a run
Names == {"boot", "vbmeta", "vbmeta_system"}
NameSeq == <<"boot", "vbmeta", "vbmeta_system">>
\* header flags found in the input metadata
InputFlags == {0, 3, 5}

(***************************************************************************)
(* Sequences and strings.                                                  *)
(***************************************************************************)
Range(s) == {s[i] : i \in DOMAIN s}

Perms(S) == {s \in [1..Cardinality(S) -> S] : Range(s) = S}

\* list append of the elements not yet in the list (dict insertion order)
RECURSIVE AddNew(_, _)
AddNew(list, more) ==
    IF more = <<>> THEN list
    ELSE AddNew(IF Head(more) \in Range(list) THEN list ELSE Append(list, Head(more)),
                Tail(more))

SelectIdx(s, Test(_)) == {i \in DOMAIN s : Test(s[i])}

\* str.startswith, str.endswith, str.removesuffix
StartsWith(s, p) == Len(s) >= Len(p) /\ SubSeq(s, 1, Len(p)) = p
EndsWith(s, p) == Len(s) >= Len(p) /\ SubSeq(s, Len(s) - Len(p) + 1, Len(s)) = p
RemoveSuffix(s, p) == IF EndsWith(s, p) /\ Len(p) > 0 THEN SubSeq(s, 1, Len(s) - Len(p)) ELSE s

\* dict update d[k] = v
Put(d, k, v) == [x \in DOMAIN d \cup {k} |-> IF x = k THEN v ELSE d[x]]

EmptyDict == [x \in {} |-> 0]

(***************************************************************************)
(* Descriptors and metadata records (avb.toml).                            *)
(***************************************************************************)
HasName(d) == "partition_name" \in DOMAIN d

\* d.get('partition_name') == name
NameIs(d, name) == HasName(d) /\ d.partition_name = name

ChainDescriptor(t) ==
    [type |-> "ChainPartition", partition_name |-> t,
     rollback_index_location |-> 1, public_key |-> "stale_key"]

HashDescriptor(t) ==
    [type |-> "Hash", partition_name |-> t, digest |-> "stale"]

HashTreeDescriptor(t) ==
    [type |-> "HashTree", partition_name |-> t, digest |-> "stale"]

PropertyDescriptor == [type |-> "Property", key |-> "k"]

\* the descriptors an input avb.toml of partition `owner` may hold
InputDescriptors(owner) ==
    {PropertyDescriptor, HashDescriptor(owner)}
    \cup {IF StartsWith(t, "vbmeta") THEN ChainDescriptor(t) ELSE HashDescriptor(t) :
            t \in Names \ {owner}}

InputLists(owner, k) == UNION {[1..n -> InputDescriptors(owner)] : n \in 0..k}

\* every way to give some of NameSeq[i..] a descriptor list, at most b
\* descriptors in all
RECURSIVE InputDirs(_, _)
InputDirs(i, b) ==
    IF i > Len(NameSeq) THEN {EmptyDict}
    ELSE InputDirs(i + 1, b)
         \cup UNION {{Put(f, NameSeq[i], l) : f \in InputDirs(i + 1, b - Len(l))} :
                       l \in InputLists(NameSeq[i], b)}

Metadata(alg, flags, descriptors) ==
    [header |-> [algorithm_type |-> alg,
                 public_key |-> IF alg = "None" THEN "" ELSE "stale_key",
                 flags |-> flags,
                 descriptors |-> descriptors]]

(***************************************************************************)
(* The dependency graph and graphlib.TopologicalSorter.                    *)
(***************************************************************************)
\* avb_dep_graph[name]: the names the descriptors of name's avb.toml carry,
\* its own excepted
Dependencies(name, meta) ==
    {meta.header.descriptors[i].partition_name :
        i \in SelectIdx(meta.header.descriptors,
                        LAMBDA d : HasName(d) /\ d.partition_name # name)}

DepGraph(fs) == [n \in DOMAIN fs |-> Dependencies(n, fs[n])]

\* _node2info in insertion order: add(node, *predecessors) for every item of
\* the graph, keys in dict order, iter[node] the order the set is iterated in
RECURSIVE NodeOrder(_, _, _)
NodeOrder(keys, iter, nodes) ==
    IF keys = <<>> THEN nodes
    ELSE NodeOrder(Tail(keys), iter,
                   AddNew(AddNew(nodes, <<Head(keys)>>), iter[Head(keys)]))

\* nodeinfo.successors: the nodes that named `pred` a predecessor, in the
\* order they were added
Successors(keys, graph, pred) == SelectSeq(keys, LAMBDA k : pred \in graph[k])

\* nodeinfo.npredecessors after all add() calls
NPredecessors(graph, nodes) ==
    [n \in Range(nodes) |-> IF n \in DOMAIN graph THEN Cardinality(graph[n]) ELSE 0]

\* the nodes reachable from the set S along predecessor edges in k steps
RECURSIVE ReachFrom(_, _, _)
ReachFrom(graph, S, k) ==
    IF k = 0 THEN S
    ELSE ReachFrom(graph,
                   S \cup UNION {IF n \in DOMAIN graph THEN graph[n] ELSE {} : n \in S},
                   k - 1)

\* a sorter that finds no cycle
HasCycleNever(graph) == FALSE

\* _find_cycle() returns a cycle: some node reaches itself
HasCycle(graph) ==
    \E n \in DOMAIN graph :
        n \in ReachFrom(graph, graph[n], Cardinality(DOMAIN graph))

\* done(*nodes): every successor loses a predecessor, becoming ready at zero
RECURSIVE Done(_, _, _)
Done(edges, npred, ready) ==
    IF edges = <<>> THEN [npred |-> npred, ready |-> ready]
    ELSE LET s == Head(edges)
             n == npred[s] - 1
         IN Done(Tail(edges), [npred EXCEPT ![s] = n],
                 IF n = 0 THEN Append(ready, s) ELSE ready)

RECURSIVE Flatten(_)
Flatten(ss) == IF ss = <<>> THEN <<>> ELSE Head(ss) \o Flatten(Tail(ss))

\* static_order(): while is_active(): get_ready(), yield, done()
RECURSIVE Drain(_, _, _, _, _)
Drain(keys, graph, ready, npred, out) ==
    IF ready = <<>> THEN out
    ELSE LET edges == Flatten([i \in DOMAIN ready |-> Successors(keys, graph, ready[i])])
             d == Done(edges, npred, <<>>)
         IN Drain(keys, graph, d.ready, d.npred, out \o ready)

\* a sorter that yields the nodes as they were added
StaticOrderUnsorted(keys, graph, iter) == NodeOrder(keys, iter, <<>>)

\* a sorter that yields every node twice
StaticOrderRepeated(keys, graph, iter) ==
    LET nodes == NodeOrder(keys, iter, <<>>)
        npred == NPredecessors(graph, nodes)
        ready == SelectSeq(nodes, LAMBDA n : npred[n] = 0)
        order == Drain(keys, graph, ready, npred, <<>>)
    IN order \o order

\* list(TopologicalSorter(graph).static_order()) for an acyclic graph whose
\* keys were inserted in the order `keys`
StaticOrder(keys, graph, iter) ==
    LET nodes == NodeOrder(keys, iter, <<>>)
        npred == NPredecessors(graph, nodes)
        ready == SelectSeq(nodes, LAMBDA n : npred[n] = 0)
    IN Drain(keys, graph, ready, npred, <<>>)

(***************************************************************************)
(* The pack loop: descriptor propagation and the avbroot avb pack call.    *)
(***************************************************************************)
\* x & ~m on non-negative integers, bit by bit
RECURSIVE AndNot(_, _)
AndNot(x, m) ==
    IF x = 0 THEN 0
    ELSE (IF x % 2 = 1 /\ m % 2 = 0 THEN 1 ELSE 0) + 2 * AndNot(x \div 2, m \div 2)

\* avb_info['header']['flags'] & ~3
ClearFlags(flags) == AndNot(flags, 3)

\* a loop body that leaves the chain descriptor of a signed child alone
PropagateOneKeepKey(d, keys, descs) ==
    IF ~HasName(d) THEN d
    ELSE IF d.partition_name \in DOMAIN keys THEN d
         ELSE descs[d.partition_name]

\* a loop body that leaves the descriptor of an unsigned child alone
PropagateOneStale(d, keys, descs) ==
    IF ~HasName(d) THEN d
    ELSE IF d.partition_name \in DOMAIN keys
         THEN Put(d, "public_key", keys[d.partition_name])
         ELSE d

\* the body of the loop over a vbmeta image's descriptors
PropagateOne(d, keys, descs) ==
    IF ~HasName(d) THEN d
    ELSE IF d.partition_name \in DOMAIN keys
         THEN Put(d, "public_key", keys[d.partition_name])
         ELSE descs[d.partition_name]

\* avb_descriptors[partition_name] raises KeyError
PropagateFails(descriptors, keys, descs) ==
    \E i \in DOMAIN descriptors :
        /\ HasName(descriptors[i])
        /\ descriptors[i].partition_name \notin DOMAIN keys
        /\ descriptors[i].partition_name \notin DOMAIN descs

\* the avb.toml a vbmeta image is given before it is packed
Propagate(meta, keys, descs) ==
    [meta EXCEPT
        !.header.descriptors = [i \in DOMAIN meta.header.descriptors |->
                                   PropagateOne(meta.header.descriptors[i], keys, descs)],
        !.header.flags = ClearFlags(meta.header.flags)]

\* the public key of --key and a digest computed over the payload of `name`
KeyPublic == "avb_key_public"
FreshDigest(name) == "digest_of_" \o name

\* avbroot avb pack --output-info: avb.toml rewritten with the recomputed
\* hash of the image's own descriptor and, if signed, the key's public key
CodecPack(name, meta) ==
    [meta EXCEPT
        !.header.public_key = IF meta.header.algorithm_type # "None" THEN KeyPublic ELSE @,
        !.header.descriptors = [i \in DOMAIN meta.header.descriptors |->
            LET d == meta.header.descriptors[i]
            IN IF NameIs(d, name) /\ "digest" \in DOMAIN d
               THEN [d EXCEPT !.digest = FreshDigest(name)]
               ELSE d]]

\* a search that takes the first descriptor with any partition name
OwnIdxAny(name, meta) == SelectIdx(meta.header.descriptors, LAMBDA d : HasName(d))

\* next((d for d in descriptors if d.get('partition_name') == name), None)
OwnIdx(name, meta) == SelectIdx(meta.header.descriptors, LAMBDA d : NameIs(d, name))
HasOwnDescriptor(name, meta) == OwnIdx(name, meta) # {}
OwnDescriptor(name, meta) ==
    meta.header.descriptors[CHOOSE i \in OwnIdx(name, meta) : \A j \in OwnIdx(name, meta) : i <= j]

\* if descriptor: avb_descriptors[name] = descriptor
RecordDescriptor(descs, name, info) ==
    IF HasOwnDescriptor(name, info)
    THEN Put(descs, name, OwnDescriptor(name, info))
    ELSE descs

\* a dict of public keys that is created anew for every signed image
RecordPublicKeyAnew(keys, name, info) ==
    IF info.header.algorithm_type # "None"
    THEN Put(EmptyDict, name, info.header.public_key)
    ELSE keys

\* if algorithm_type != 'None': avb_public_keys[name] = public_key
RecordPublicKey(keys, name, info) ==
    IF info.header.algorithm_type # "None"
    THEN Put(keys, name, info.header.public_key)
    ELSE keys

\* an entry of the log: the helper called, on what, and whether it succeeded
Call(op, arg, ok) == [op |-> op, arg |-> arg, ok |-> ok]

\* an exception that is logged and swallowed
FailKeepGoing(e) == err' = e /\ UNCHANGED pc

Fail(e) == pc' = "error" /\ err' = e

(***************************************************************************)
(* pack_subcommand.                                                        *)
(***************************************************************************)
Algorithms == {"None", "Sha256Rsa4096"}

\* the slot names a container manifest may list
SlotNames == {"boot_a", "boot_b", "misc"}
\* a manifest names every slot once
Manifests ==
    {m \in UNION {[1..n -> SlotNames] : n \in 0..MaxSlots} :
        \A i, j \in DOMAIN m : m[i] = m[j] => i = j}

\* the input directory and the local state of a pack run before its first step
PackInputs ==
    /\ action = "pack"
    /\ err = "none"
    /\ \E dirs \in InputDirs(1, MaxDescs) :
        \E alg \in [DOMAIN dirs -> Algorithms], fl \in InputFlags :
            files = [n \in DOMAIN dirs |-> Metadata(alg[n], fl, dirs[n])]
    /\ input_files = files
    /\ todo = {}
    /\ avb_pack_order = <<>>
    /\ idx = 1
    /\ avb_descriptors = EmptyDict
    /\ avb_public_keys = EmptyDict
    /\ calls = <<>>
    /\ pack_calls = <<>>
    /\ out_images = {}
    /\ lp_info = <<>>
    /\ lp_idx = 1
    /\ lp_images_dir = EmptyDict
    /\ lp_images = {}
    /\ vbmeta_images = {}

InitPack == pc = "pack_start" /\ PackInputs

\* the orders in which the sets of the graph may be iterated
IterOrders(graph) ==
    {f \in [DOMAIN graph -> UNION {Perms(graph[n]) : n \in DOMAIN graph}] :
        \A n \in DOMAIN graph : f[n] \in Perms(graph[n])}

\* Determine the order to pack the images: the glob enumerates the
\* directories in some order `scan`
DetermineOrder ==
    /\ pc = "pack_start"
    /\ LET graph == DepGraph(files)
       IN \E scan \in Perms(DOMAIN files), iter \in IterOrders(graph) :
            IF HasCycle(graph)
            THEN /\ Fail("CycleError")
                 /\ UNCHANGED avb_pack_order
            ELSE /\ avb_pack_order' = StaticOrder(scan, graph, iter)
                 /\ pc' = "pack_loop"
                 /\ UNCHANGED err
    /\ UNCHANGED <<action, input_files, todo, lp_images, vbmeta_images, files, idx, avb_descriptors, avb_public_keys, calls,
                   pack_calls, out_images, lp_info, lp_idx, lp_images_dir>>

\* a loop that takes every image for a vbmeta image
IsVbmetaAny(name) == TRUE

\* is_vbmeta = name.startswith('vbmeta')
IsVbmeta(name) == StartsWith(name, "vbmeta")

\* One iteration of "for name in avb_pack_order"
PackIteration ==
    /\ pc = "pack_loop"
    /\ idx <= Len(avb_pack_order)
    /\ LET name == avb_pack_order[idx]
           is_vbmeta == IsVbmeta(name)
       IN IF name \notin DOMAIN files
          THEN \* open(avb_toml) fails, in the loop or in avb_pack
               /\ Fail("FileNotFoundError")
               /\ UNCHANGED <<files, idx, avb_descriptors, avb_public_keys, calls,
                              pack_calls, out_images>>
          ELSE IF is_vbmeta
                  /\ PropagateFails(files[name].header.descriptors, avb_public_keys, avb_descriptors)
          THEN /\ Fail("KeyError")
               /\ UNCHANGED <<files, idx, avb_descriptors, avb_public_keys, calls,
                              pack_calls, out_images>>
          ELSE LET given == IF is_vbmeta
                            THEN Propagate(files[name], avb_public_keys, avb_descriptors)
                            ELSE files[name]
                   info == CodecPack(name, given)
               IN /\ pack_calls' = Append(pack_calls, [name |-> name, info |-> given])
                  /\ \/ \* avbroot exits non-zero
                        /\ calls' = Append(calls, Call("avb_pack", name, FALSE))
                        /\ Fail("CalledProcessError")
                        /\ files' = [files EXCEPT ![name] = given]
                        /\ UNCHANGED <<idx, avb_descriptors, avb_public_keys, out_images>>
                     \/ /\ calls' = Append(calls, Call("avb_pack", name, TRUE))
                        /\ files' = [files EXCEPT ![name] = info]
                        /\ out_images' = out_images \cup {name}
                        /\ avb_descriptors' = RecordDescriptor(avb_descriptors, name, info)
                        /\ avb_public_keys' = RecordPublicKey(avb_public_keys, name, info)
                        /\ idx' = idx + 1
                        /\ UNCHANGED <<pc, err>>
    /\ UNCHANGED <<action, input_files, todo, lp_images, vbmeta_images, avb_pack_order, lp_info, lp_idx,
                   lp_images_dir>>

\* a verification that runs one iteration early
VerifyEarly ==
    /\ pc = "pack_loop"
    /\ idx >= Len(avb_pack_order)
    /\ "vbmeta" \in out_images
    /\ calls' = calls \o <<Call("key_encode_avb", "key", TRUE),
                           Call("avb_verify", "vbmeta", TRUE)>>
    /\ pc' = "lp_start"
    /\ UNCHANGED <<action, err, input_files, todo, lp_images, vbmeta_images, files,
                   avb_pack_order, idx, avb_descriptors, avb_public_keys, pack_calls,
                   out_images, lp_info, lp_idx, lp_images_dir>>

\* Verify the entire AVB trust chain: avb_verify(output_dir / 'vbmeta.img')
Verify ==
    /\ pc = "pack_loop"
    /\ idx > Len(avb_pack_order)
    /\ \/ \* avbroot key encode-avb fails
          /\ calls' = Append(calls, Call("key_encode_avb", "key", FALSE))
          /\ Fail("CalledProcessError")
       \/ \* avbroot avb verify fails
          /\ calls' = calls \o <<Call("key_encode_avb", "key", TRUE),
                                 Call("avb_verify", "vbmeta", FALSE)>>
          /\ Fail("CalledProcessError")
       \/ /\ "vbmeta" \in out_images
          /\ calls' = calls \o <<Call("key_encode_avb", "key", TRUE),
                                 Call("avb_verify", "vbmeta", TRUE)>>
          /\ pc' = "lp_start"
          /\ UNCHANGED err
    /\ UNCHANGED <<action, input_files, todo, lp_images, vbmeta_images, files, avb_pack_order, idx, avb_descriptors, avb_public_keys,
                   pack_calls, out_images, lp_info, lp_idx, lp_images_dir>>

\* Create a new LP super image: copy and load lp.toml
LoadManifest ==
    /\ pc = "lp_start"
    /\ \E m \in Manifests : lp_info' = m
    /\ lp_idx' = 1
    /\ pc' = "lp_loop"
    /\ UNCHANGED <<action, err, input_files, todo, lp_images, vbmeta_images, files, avb_pack_order, idx,
                   avb_descriptors, avb_public_keys, calls, pack_calls, out_images,
                   lp_images_dir>>

\* One iteration of the loop over the partitions of the manifest
PackSlot ==
    /\ pc = "lp_loop"
    /\ lp_idx <= Len(lp_info)
    /\ LET lp_name == lp_info[lp_idx]
           name == RemoveSuffix(lp_name, "_a")
       IN IF EndsWith(lp_name, "_a")
          THEN IF name \in out_images
               THEN \* image.rename(lp_image)
                    /\ out_images' = out_images \ {name}
                    /\ lp_images_dir' = Put(lp_images_dir, lp_name, name)
                    /\ lp_idx' = lp_idx + 1
                    /\ UNCHANGED <<pc, err>>
               ELSE /\ Fail("FileNotFoundError")
                    /\ UNCHANGED <<out_images, lp_images_dir, lp_idx>>
          ELSE IF EndsWith(lp_name, "_b")
          THEN /\ lp_images_dir' = Put(lp_images_dir, lp_name, "")
               /\ lp_idx' = lp_idx + 1
               /\ UNCHANGED <<pc, err, out_images>>
          ELSE /\ Fail("ValueError")
               /\ UNCHANGED <<out_images, lp_images_dir, lp_idx>>
    /\ UNCHANGED <<action, input_files, todo, lp_images, vbmeta_images, files, avb_pack_order, idx, avb_descriptors, avb_public_keys,
                   calls, pack_calls, lp_info>>

\* a container that is packed with the last slot of the manifest pending
PackContainerEarly ==
    /\ pc = "lp_loop"
    /\ lp_idx >= Len(lp_info)
    /\ calls' = Append(calls, Call("lp_pack", "super", TRUE))
    /\ out_images' = out_images \cup {"super"}
    /\ lp_images_dir' = EmptyDict
    /\ pc' = "done"
    /\ UNCHANGED <<action, err, input_files, todo, lp_images, vbmeta_images, files,
                   avb_pack_order, idx, avb_descriptors, avb_public_keys, pack_calls,
                   lp_info, lp_idx>>

\* lp_pack(super_dir, super_image); shutil.rmtree(super_dir)
PackContainer ==
    /\ pc = "lp_loop"
    /\ lp_idx > Len(lp_info)
    /\ \/ /\ calls' = Append(calls, Call("lp_pack", "super", FALSE))
          /\ Fail("CalledProcessError")
          /\ UNCHANGED <<out_images, lp_images_dir>>
       \/ /\ calls' = Append(calls, Call("lp_pack", "super", TRUE))
          /\ out_images' = out_images \cup {"super"}
          /\ lp_images_dir' = EmptyDict
          /\ pc' = "done"
          /\ UNCHANGED err
    /\ UNCHANGED <<action, input_files, todo, lp_images, vbmeta_images, files, avb_pack_order, idx, avb_descriptors, avb_public_keys,
                   pack_calls, lp_info, lp_idx>>

NextPack ==
    \/ DetermineOrder
    \/ PackIteration
    \/ Verify
    \/ LoadManifest
    \/ PackSlot
    \/ PackContainer

SpecPack == InitPack /\ [][NextPack]_vars

(***************************************************************************)
(* unpack_subcommand.                                                      *)
(***************************************************************************)
\* c * n
RECURSIVE Repeat(_, _)
Repeat(c, n) ==
    IF n = 0 THEN ""
    ELSE IF n % 2 = 0 THEN LET h == Repeat(c, n \div 2) IN h \o h
    ELSE c \o Repeat(c, n - 1)

\* a template that marks every image signed
avb_generate_metadata_signed(descriptor) ==
    [image_size |-> 0,
     header |-> [
         required_libavb_version_major |-> 1,
         required_libavb_version_minor |-> 0,
         algorithm_type |-> "Sha256Rsa4096",
         hash |-> Repeat("0", 64),
         signature |-> Repeat("0", 512),
         public_key |-> Repeat("0", 1032),
         public_key_metadata |-> "",
         rollback_index |-> 0,
         flags |-> 0,
         rollback_index_location |-> 0,
         release_string |-> "avbtool 1.3.0",
         reserved |-> Repeat("0", 160),
         descriptors |-> <<descriptor>>],
     footer |-> [
         version_major |-> 1,
         version_minor |-> 0,
         original_image_size |-> 0,
         vbmeta_offset |-> 0,
         vbmeta_size |-> 0,
         reserved |-> Repeat("0", 56)]]

avb_generate_metadata(descriptor) ==
    LET is_signed == descriptor.type = "ChainPartition"
    IN [image_size |-> 0,
        header |-> [
            required_libavb_version_major |-> 1,
            required_libavb_version_minor |-> 0,
            algorithm_type |-> IF is_signed THEN "Sha256Rsa4096" ELSE "None",
            hash |-> IF is_signed THEN Repeat("0", 64) ELSE "",
            signature |-> IF is_signed THEN Repeat("0", 512) ELSE "",
            public_key |-> IF is_signed THEN Repeat("0", 1032) ELSE "",
            public_key_metadata |-> "",
            rollback_index |-> 0,
            flags |-> 0,
            rollback_index_location |-> 0,
            release_string |-> "avbtool 1.3.0",
            reserved |-> Repeat("0", 160),
            descriptors |-> <<descriptor>>],
        footer |-> [
            version_major |-> 1,
            version_minor |-> 0,
            original_image_size |-> 0,
            vbmeta_offset |-> 0,
            vbmeta_size |-> 0,
            reserved |-> Repeat("0", 56)]]

\* the vbmeta*.img files the input directory may hold
VbmetaNames == {"vbmeta", "vbmeta_system"}

\* the descriptors a vbmeta image may hold
ImageDescriptors ==
    {PropertyDescriptor, ChainDescriptor("boot"), HashDescriptor("boot"),
     HashTreeDescriptor("boot"), ChainDescriptor("vbmeta_system")}

\* the descriptors of the avb.toml files written so far
RECURSIVE DescCount(_, _)
DescCount(fs, S) ==
    IF S = {} THEN 0
    ELSE LET n == CHOOSE x \in S : TRUE
         IN Len(fs[n].header.descriptors) + DescCount(fs, S \ {n})

\* avb.toml as avbroot avb unpack may write it for a vbmeta image
VbmetaInfos(budget) ==
    {Metadata("Sha256Rsa4096", 0, l) :
        l \in UNION {[1..n -> ImageDescriptors] : n \in 0..budget}}

\* avb.toml as avbroot avb unpack writes it for an image with a footer
ImageInfo(name) == Metadata("None", 0, <<HashTreeDescriptor(name)>>)

\* for descriptor in descriptors: if 'partition_name' in descriptor: ...
RECURSIVE Collect(_, _)
Collect(dict, descriptors) ==
    IF descriptors = <<>> THEN dict
    ELSE Collect(IF HasName(Head(descriptors))
                 THEN Put(dict, Head(descriptors).partition_name, Head(descriptors))
                 ELSE dict,
                 Tail(descriptors))

\* what lp_images/<slot>.img may be: empty, a bare payload, an AVB image
SlotImages ==
    {[size |-> 0, valid |-> FALSE], [size |-> 1, valid |-> FALSE],
     [size |-> 1, valid |-> TRUE]}

\* a slot loop that takes every name without _b for an _a slot
SlotKindLax(lp_name) == IF EndsWith(lp_name, "_b") THEN "b" ELSE "a"

\* the branch the slot loop takes on a slot name
SlotKind(lp_name) ==
    IF EndsWith(lp_name, "_b") THEN "b"
    ELSE IF ~EndsWith(lp_name, "_a") THEN "unknown"
    ELSE "a"

\* mapping minus the key k
Remove(d, k) == [x \in DOMAIN d \ {k} |-> d[x]]

\* the input directory and the local state of an unpack run before its first step
UnpackInputs ==
    /\ action = "unpack"
    /\ err = "none"
    /\ vbmeta_images \in SUBSET VbmetaNames
    /\ todo = vbmeta_images
    /\ files = EmptyDict
    /\ input_files = EmptyDict
    /\ avb_pack_order = <<>>
    /\ idx = 1
    /\ avb_descriptors = EmptyDict
    /\ avb_public_keys = EmptyDict
    /\ calls = <<>>
    /\ pack_calls = <<>>
    /\ out_images = {}
    /\ lp_info = <<>>
    /\ lp_idx = 1
    /\ lp_images_dir = EmptyDict
    /\ lp_images = {}

InitUnpack == pc = "unpack_vbmeta" /\ UnpackInputs

\* One iteration of "for name in vbmeta_images"
UnpackVbmeta ==
    /\ pc = "unpack_vbmeta"
    /\ \E name \in todo :
        /\ \/ /\ calls' = Append(calls, Call("avb_unpack", name, FALSE))
              /\ Fail("CalledProcessError")
              /\ UNCHANGED <<files, avb_descriptors, todo>>
           \/ \E avb_info \in VbmetaInfos(MaxDescs - DescCount(files, DOMAIN files)) :
                /\ calls' = Append(calls, Call("avb_unpack", name, TRUE))
                /\ files' = Put(files, name, avb_info)
                /\ avb_descriptors' = Collect(avb_descriptors, avb_info.header.descriptors)
                /\ todo' = todo \ {name}
                /\ UNCHANGED <<pc, err>>
    /\ UNCHANGED <<action, input_files, avb_pack_order, idx, avb_public_keys, pack_calls,
                   out_images, lp_info, lp_idx, lp_images_dir, lp_images, vbmeta_images>>

\* a join that does not wait for the loop over the vbmeta images
GlobChunksEarly ==
    /\ pc = "unpack_vbmeta"
    /\ \E n \in 0..MaxChunks : todo' = 1..n
    /\ out_images' = out_images \ {"super"}
    /\ pc' = "unpack_join"
    /\ UNCHANGED <<action, err, input_files, files, avb_pack_order, idx, avb_descriptors,
                   avb_public_keys, calls, pack_calls, lp_info, lp_idx, lp_images_dir,
                   lp_images, vbmeta_images>>

\* super_image.unlink(missing_ok=True); input_dir.glob('super.img.*')
GlobChunks ==
    /\ pc = "unpack_vbmeta"
    /\ todo = {}
    /\ \E n \in 0..MaxChunks : todo' = 1..n
    /\ out_images' = out_images \ {"super"}
    /\ pc' = "unpack_join"
    /\ UNCHANGED <<action, err, input_files, files, avb_pack_order, idx, avb_descriptors,
                   avb_public_keys, calls, pack_calls, lp_info, lp_idx, lp_images_dir,
                   lp_images, vbmeta_images>>

\* One iteration of "for image in input_dir.glob('super.img.*')"
SparseUnpack ==
    /\ pc = "unpack_join"
    /\ \E chunk \in todo :
        /\ \/ /\ calls' = Append(calls, Call("sparse_unpack", "super", FALSE))
              /\ Fail("CalledProcessError")
              /\ UNCHANGED <<todo, out_images>>
           \/ /\ calls' = Append(calls, Call("sparse_unpack", "super", TRUE))
              /\ todo' = todo \ {chunk}
              /\ out_images' = out_images \cup {"super"}
              /\ UNCHANGED <<pc, err>>
    /\ UNCHANGED <<action, input_files, files, avb_pack_order, idx, avb_descriptors,
                   avb_public_keys, pack_calls, lp_info, lp_idx, lp_images_dir,
                   lp_images, vbmeta_images>>

\* Unpack the super image and load the LP metadata, the container holding
\* one of `manifests`
LpUnpackOf(manifests) ==
    /\ pc = "unpack_join"
    /\ todo = {}
    /\ \/ /\ calls' = Append(calls, Call("lp_unpack", "super", FALSE))
          /\ Fail("CalledProcessError")
          /\ UNCHANGED <<out_images, lp_info, lp_images_dir>>
       \/ /\ "super" \in out_images
          /\ calls' = Append(calls, Call("lp_unpack", "super", TRUE))
          /\ \E m \in manifests : \E dir \in [Range(m) -> SlotImages] :
                /\ lp_info' = m
                /\ lp_images_dir' = dir
          /\ out_images' = out_images \ {"super"}
          /\ pc' = "unpack_slots"
          /\ UNCHANGED err
    /\ UNCHANGED <<action, input_files, files, todo, avb_pack_order, idx,
                   avb_descriptors, avb_public_keys, pack_calls, lp_idx, lp_images,
                   vbmeta_images>>

LpUnpack == LpUnpackOf(Manifests)

\* One iteration of the loop over the partitions of the manifest
UnpackSlot ==
    /\ pc = "unpack_slots"
    /\ lp_idx <= Len(lp_info)
    /\ LET lp_name == lp_info[lp_idx]
           lp_image == lp_images_dir[lp_name]
           name == RemoveSuffix(lp_name, "_a")
       IN CASE SlotKind(lp_name) = "b" ->
                 \* _b images are meant to be empty.
                 IF lp_image.size # 0
                 THEN /\ Fail("ValueError")
                      /\ UNCHANGED <<files, calls, lp_idx, lp_images_dir, lp_images>>
                 ELSE /\ lp_idx' = lp_idx + 1
                      /\ UNCHANGED <<pc, err, files, calls, lp_images_dir, lp_images>>
            [] SlotKind(lp_name) = "unknown" ->
                 /\ Fail("ValueError")
                 /\ UNCHANGED <<files, calls, lp_idx, lp_images_dir, lp_images>>
            [] OTHER ->
                 IF lp_image.valid
                 THEN /\ \/ /\ calls' = calls \o <<Call("avb_info", lp_name, TRUE),
                                                   Call("avb_unpack", lp_name, FALSE)>>
                            /\ Fail("CalledProcessError")
                            /\ UNCHANGED <<files, lp_idx, lp_images>>
                         \/ /\ calls' = calls \o <<Call("avb_info", lp_name, TRUE),
                                                   Call("avb_unpack", lp_name, TRUE)>>
                            /\ files' = Put(files, name, ImageInfo(name))
                            /\ lp_images' = lp_images \cup {name}
                            /\ lp_idx' = lp_idx + 1
                            /\ UNCHANGED <<pc, err>>
                      /\ UNCHANGED lp_images_dir
                 ELSE IF name \notin DOMAIN avb_descriptors
                 THEN /\ calls' = Append(calls, Call("avb_info", lp_name, FALSE))
                      /\ Fail("KeyError")
                      /\ UNCHANGED <<files, lp_idx, lp_images_dir, lp_images>>
                 ELSE /\ calls' = calls \o <<Call("avb_info", lp_name, FALSE),
                                             Call("avb_generate_metadata", name, TRUE)>>
                      /\ files' = Put(files, name, avb_generate_metadata(avb_descriptors[name]))
                      /\ lp_images_dir' = Remove(lp_images_dir, lp_name)
                      /\ lp_images' = lp_images \cup {name}
                      /\ lp_idx' = lp_idx + 1
                      /\ UNCHANGED <<pc, err>>
    /\ UNCHANGED <<action, input_files, todo, avb_pack_order, idx, avb_descriptors,
                   avb_public_keys, pack_calls, out_images, lp_info, vbmeta_images>>

\* shutil.rmtree(lp_images_dir); the names left for the last loop
RemainingImages ==
    /\ pc = "unpack_slots"
    /\ lp_idx > Len(lp_info)
    /\ lp_images_dir' = EmptyDict
    /\ todo' = (DOMAIN avb_descriptors \ vbmeta_images) \ lp_images
    /\ pc' = IF todo' = {} THEN "done" ELSE "unpack_rest"
    /\ UNCHANGED <<action, err, input_files, files, avb_pack_order, idx, avb_descriptors,
                   avb_public_keys, calls, pack_calls, out_images, lp_info, lp_idx,
                   lp_images, vbmeta_images>>

\* One iteration of the loop over the remaining non-LP images
UnpackRemaining ==
    /\ pc = "unpack_rest"
    /\ \E name \in todo :
        /\ \/ /\ calls' = Append(calls, Call("avb_unpack", name, FALSE))
              /\ Fail("CalledProcessError")
              /\ UNCHANGED <<files, todo>>
           \/ \* input_dir/<name>.img exists: a vbmeta*.img is in vbmeta_images
              /\ StartsWith(name, "vbmeta") => name \in vbmeta_images
              /\ calls' = Append(calls, Call("avb_unpack", name, TRUE))
              /\ files' = Put(files, name, ImageInfo(name))
              /\ todo' = todo \ {name}
              /\ pc' = IF todo' = {} THEN "done" ELSE pc
              /\ UNCHANGED err
    /\ UNCHANGED <<action, input_files, avb_pack_order, idx, avb_descriptors,
                   avb_public_keys, pack_calls, out_images, lp_info, lp_idx,
                   lp_images_dir, lp_images, vbmeta_images>>

NextUnpack ==
    \/ UnpackVbmeta
    \/ GlobChunks
    \/ SparseUnpack
    \/ LpUnpack
    \/ UnpackSlot
    \/ RemainingImages
    \/ UnpackRemaining

SpecUnpack == InitUnpack /\ [][NextUnpack]_vars

\* unpack_subcommand on a container that may also hold a slot named like one
\* of the vbmeta images of the input directory
SharedSlotNames == SlotNames \cup {"vbmeta_system_a"}
SharedManifests ==
    {m \in UNION {[1..n -> SharedSlotNames] : n \in 0..MaxSlots} :
        \A i, j \in DOMAIN m : m[i] = m[j] => i = j}

LpUnpackShared == LpUnpackOf(SharedManifests)

NextUnpackShared ==
    \/ UnpackVbmeta
    \/ GlobChunks
    \/ SparseUnpack
    \/ LpUnpackShared
    \/ UnpackSlot
    \/ RemainingImages
    \/ UnpackRemaining

SpecUnpackShared == InitUnpack /\ [][NextUnpackShared]_vars

(***************************************************************************)
(* main: the version gate, then the subcommand.                            *)
(***************************************************************************)
AVBROOT_REQUIRED_VERSION == <<3, 19, 0>>

\* what `avbroot --version` may print
VersionOutputs ==
    {"avbroot 2.20.0\n", "avbroot 3.18.9\n", "avbroot 3.19.0\n", "avbroot 4.0.0\n"}

\* bytes.removeprefix
RemovePrefix(s, p) == IF StartsWith(s, p) THEN SubSeq(s, Len(p) + 1, Len(s)) ELSE s

\* str.strip
IsSpace(c) == c \in {" ", "\n", "\t"}
RECURSIVE Strip(_)
Strip(s) ==
    IF s = "" THEN s
    ELSE IF IsSpace(SubSeq(s, 1, 1)) THEN Strip(SubSeq(s, 2, Len(s)))
    ELSE IF IsSpace(SubSeq(s, Len(s), Len(s))) THEN Strip(SubSeq(s, 1, Len(s) - 1))
    ELSE s

\* str.split(sep) for a separator of one character
RECURSIVE SplitFrom(_, _, _, _)
SplitFrom(s, sep, i, word) ==
    IF i > Len(s) THEN <<word>>
    ELSE IF SubSeq(s, i, i) = sep THEN <<word>> \o SplitFrom(s, sep, i + 1, "")
    ELSE SplitFrom(s, sep, i + 1, word \o SubSeq(s, i, i))

Split(s, sep) == SplitFrom(s, sep, 1, "")

Digits == <<"0", "1", "2", "3", "4", "5", "6", "7", "8", "9">>
IsDigit(c) == c \in Range(Digits)
DigitValue(c) == (CHOOSE i \in DOMAIN Digits : Digits[i] = c) - 1

\* int(v) of a string of decimal digits
RECURSIVE ParseDigits(_, _)
ParseDigits(s, acc) ==
    IF s = "" THEN acc
    ELSE ParseDigits(SubSeq(s, 2, Len(s)), 10 * acc + DigitValue(SubSeq(s, 1, 1)))

IsInt(s) == s # "" /\ \A i \in 1..Len(s) : IsDigit(SubSeq(s, i, i))
ParseInt(s) == ParseDigits(s, 0)

\* a comparison that looks at the major version alone
TupleLessMajor(a, b) == a # <<>> /\ b # <<>> /\ Head(a) < Head(b)

\* tuple < tuple: lexicographic, a proper prefix is smaller
RECURSIVE TupleLess(_, _)
TupleLess(a, b) ==
    IF b = <<>> THEN FALSE
    ELSE IF a = <<>> THEN TRUE
    ELSE IF Head(a) # Head(b) THEN Head(a) < Head(b)
    ELSE TupleLess(Tail(a), Tail(b))

\* the state before main's first step, for either subcommand
Init ==
    /\ pc = "main"
    /\ (PackInputs \/ UnpackInputs)

\* check_avbroot_version(), then the dispatch on args.action
CheckVersion ==
    /\ pc = "main"
    /\ \/ \* subprocess.check_output raises
          /\ calls' = Append(calls, Call("avbroot_version", "", FALSE))
          /\ Fail("CalledProcessError")
       \/ \E output \in VersionOutputs :
            LET version == Strip(RemovePrefix(output, "avbroot "))
                words == Split(version, ".")
            IN /\ calls' = Append(calls, Call("avbroot_version", output, TRUE))
               /\ IF \E i \in DOMAIN words : ~IsInt(words[i])
                  THEN Fail("ValueError")
                  ELSE LET split == [i \in DOMAIN words |-> ParseInt(words[i])]
                       IN IF TupleLess(split, AVBROOT_REQUIRED_VERSION)
                          THEN Fail("ValueError")
                          ELSE /\ pc' = IF action = "unpack" THEN "unpack_vbmeta"
                                                            ELSE "pack_start"
                               /\ UNCHANGED err
    /\ UNCHANGED <<action, input_files, files, todo, avb_pack_order, idx,
                   avb_descriptors, avb_public_keys, pack_calls, out_images,
                   lp_info, lp_idx, lp_images_dir, lp_images, vbmeta_images>>

Next ==
    \/ CheckVersion
    \/ NextPack
    \/ NextUnpack

Spec == Init /\ [][Next]_vars

(***************************************************************************)
(* Properties.                                                             *)
(***************************************************************************)
\* the names the descriptors of name's input avb.toml carry, its own excepted
Referenced(name) ==
    LET ds == input_files[name].header.descriptors
    IN {ds[i].partition_name :
            i \in {j \in DOMAIN ds : "partition_name" \in DOMAIN ds[j]
                                     /\ ds[j].partition_name # name}}

\* the partitions handed to avb_pack before the k-th call
PackedBefore(k) == {pack_calls[j].name : j \in 1..(k - 1)}

\* some partitions of the input reference each other in a ring
CyclicInput ==
    \E k \in 2..Cardinality(DOMAIN input_files) :
        \E ring \in [1..k -> DOMAIN input_files] :
            \A i \in 1..k : ring[(i % k) + 1] \in Referenced(ring[i])

\* C1: the pack order places every partition after all the partitions its
\* descriptors name, and avb_pack is never called on a partition before it
\* was called on all of them.
C1_ChildrenPackedFirst ==
    /\ \A i \in DOMAIN avb_pack_order :
        avb_pack_order[i] \in DOMAIN input_files =>
            \A c \in Referenced(avb_pack_order[i]) :
                \E j \in 1..(i - 1) : avb_pack_order[j] = c
    /\ \A k \in DOMAIN pack_calls :
        Referenced(pack_calls[k].name) \subseteq PackedBefore(k)

C1_Witness ==
    /\ action = "pack"
    /\ Len(pack_calls) = 3
    /\ idx = 4
    /\ DOMAIN input_files = {"boot", "vbmeta", "vbmeta_system"}
    /\ Referenced("vbmeta") = {"vbmeta_system"}
    /\ Referenced("vbmeta_system") = {"boot"}
    /\ pack_calls[3].name = "vbmeta"

\* C2: when the partitions of the input reference each other in a ring, the
\* run ends with CycleError: there is no pack order, avb_pack, the
\* verification and the container packing are never called, and no avb.toml
\* is rewritten.
C2_CycleRejected ==
    (action = "pack" /\ pc # "pack_start" /\ CyclicInput) =>
        /\ pc = "error"
        /\ err = "CycleError"
        /\ avb_pack_order = <<>>
        /\ pack_calls = <<>>
        /\ calls = <<>>
        /\ files = input_files
        /\ out_images = {}

C2_Witness ==
    /\ err = "CycleError"
    /\ {"vbmeta", "vbmeta_system"} \subseteq DOMAIN input_files
    /\ "vbmeta_system" \in Referenced("vbmeta")
    /\ "vbmeta" \in Referenced("vbmeta_system")

\* C3: the pack order depends on the metadata records alone: whatever order
\* the directory scan and the iteration of the dependency sets take, the
\* order is the one this run packs in.
C3_OrderIndependentOfScan ==
    (action = "pack" /\ pc = "pack_loop" /\ idx = 1) =>
        LET graph == DepGraph(input_files)
        IN \A scan \in Perms(DOMAIN input_files), iter \in IterOrders(graph) :
            avb_pack_order = StaticOrder(scan, graph, iter)

\* C4: every avb.toml handed to avb_pack, of a vbmeta image or not, has the
\* input flags with the low two bits cleared, and after a complete run no
\* avb.toml has one of them set.
C4_FlagsClearedForAll ==
    /\ \A k \in DOMAIN pack_calls :
        LET f == input_files[pack_calls[k].name].header.flags
        IN pack_calls[k].info.header.flags = f - (f % 4)
    /\ (action = "pack" /\ pc = "done") =>
        \A n \in DOMAIN files : files[n].header.flags % 4 = 0

\* C5: when a vbmeta image is handed to avb_pack, its descriptor for a
\* signed child packed before carries the public key of the child's
\* rewritten avb.toml and is otherwise the descriptor of its input.
C5_SignedChildKey ==
    \A k \in DOMAIN pack_calls :
        LET P == pack_calls[k].name
            given == pack_calls[k].info.header.descriptors
            input == input_files[P].header.descriptors
        IN StartsWith(P, "vbmeta") =>
            \A i \in DOMAIN input :
                ("partition_name" \in DOMAIN input[i]
                 /\ input[i].partition_name \in PackedBefore(k)
                 /\ files[input[i].partition_name].header.algorithm_type # "None") =>
                    /\ i \in DOMAIN given
                    /\ DOMAIN given[i] = DOMAIN input[i] \cup {"public_key"}
                    /\ given[i].public_key = files[input[i].partition_name].header.public_key
                    /\ \A f \in DOMAIN input[i] \ {"public_key"} : given[i][f] = input[i][f]

C5_Witness ==
    \E k \in DOMAIN pack_calls :
        LET P == pack_calls[k].name
            input == input_files[P].header.descriptors
        IN /\ StartsWith(P, "vbmeta")
           /\ \E i \in DOMAIN input :
                /\ "partition_name" \in DOMAIN input[i]
                /\ input[i].type = "ChainPartition"
                /\ input[i].partition_name \in PackedBefore(k)
                /\ files[input[i].partition_name].header.algorithm_type # "None"
                /\ input[i].public_key # files[input[i].partition_name].header.public_key

\* the first descriptor of name's avb.toml that carries name
OwnIndexes(name) ==
    LET ds == files[name].header.descriptors
    IN {j \in DOMAIN ds : "partition_name" \in DOMAIN ds[j] /\ ds[j].partition_name = name}

FirstOwn(name) ==
    files[name].header.descriptors[
        CHOOSE j \in OwnIndexes(name) : \A m \in OwnIndexes(name) : j <= m]

\* C6: when a vbmeta image is handed to avb_pack, the entry of its
\* descriptor list that named an unsigned child packed before is the child's
\* own descriptor as its rewritten avb.toml holds it; the list keeps its
\* length and the entries without a partition name.
C6_UnsignedChildDescriptor ==
    \A k \in DOMAIN pack_calls :
        LET P == pack_calls[k].name
            given == pack_calls[k].info.header.descriptors
            input == input_files[P].header.descriptors
        IN StartsWith(P, "vbmeta") =>
            /\ Len(given) = Len(input)
            /\ \A i \in DOMAIN input :
                IF "partition_name" \in DOMAIN input[i]
                THEN (input[i].partition_name \in PackedBefore(k)
                      /\ files[input[i].partition_name].header.algorithm_type = "None") =>
                         /\ OwnIndexes(input[i].partition_name) # {}
                         /\ given[i] = FirstOwn(input[i].partition_name)
                ELSE given[i] = input[i]

C6_Witness ==
    \E k \in DOMAIN pack_calls :
        LET P == pack_calls[k].name
            given == pack_calls[k].info.header.descriptors
            input == input_files[P].header.descriptors
        IN /\ StartsWith(P, "vbmeta")
           /\ \E i \in DOMAIN input :
                /\ "partition_name" \in DOMAIN input[i]
                /\ input[i].partition_name \in PackedBefore(k)
                /\ files[input[i].partition_name].header.algorithm_type = "None"
                /\ given[i] # input[i]

\* the calls of the log made to `op`
CallsOf(op) == {i \in DOMAIN calls : calls[i].op = op}

\* C7: metadata generated from a ChainPartition descriptor has the signed
\* algorithm, a hash of 64, a signature of 1024 and a public key of 1032
\* zero characters.
C7_SignedPlaceholderLengths ==
    action = "unpack" =>
        \A i \in CallsOf("avb_generate_metadata") :
            LET header == files[calls[i].arg].header
            IN header.descriptors[1].type = "ChainPartition" =>
                /\ header.algorithm_type = "Sha256Rsa4096"
                /\ header.hash = Repeat("0", 64)
                /\ header.signature = Repeat("0", 1024)
                /\ header.public_key = Repeat("0", 1032)

\* the last two characters of a slot name, and the name without them
Suffix(lp_name) == IF Len(lp_name) < 2 THEN "" ELSE SubSeq(lp_name, Len(lp_name) - 1, Len(lp_name))
Stem(lp_name) == SubSeq(lp_name, 1, Len(lp_name) - 2)

\* C8: a step of the slot loop on a non-empty _b slot or on a slot that is
\* neither _a nor _b ends the run with an error and creates no partition;
\* on an empty _b slot it moves on and creates no partition; a partition is
\* only created for an _a slot, under the name without the suffix.
C8_SlotRules ==
    [][(pc = "unpack_slots" /\ lp_idx <= Len(lp_info)) =>
        LET s == lp_info[lp_idx]
        IN /\ ((Suffix(s) = "_b" /\ lp_images_dir[s].size # 0) \/ Suffix(s) \notin {"_a", "_b"}) =>
                /\ pc' = "error"
                /\ err' = "ValueError"
                /\ UNCHANGED <<files, lp_images, calls>>
           /\ (Suffix(s) = "_b" /\ lp_images_dir[s].size = 0) =>
                /\ pc' = "unpack_slots"
                /\ lp_idx' = lp_idx + 1
                /\ UNCHANGED <<files, lp_images, calls, err>>
           /\ (files' # files \/ lp_images' # lp_images) =>
                /\ Suffix(s) = "_a"
                /\ lp_images' = lp_images \cup {Stem(s)}
                /\ DOMAIN files' = DOMAIN files \cup {Stem(s)}
      ]_vars

C8_Witness ==
    /\ action = "unpack"
    /\ err = "ValueError"
    /\ lp_idx = 2
    /\ Suffix(lp_info[1]) = "_a"
    /\ Stem(lp_info[1]) \in lp_images
    /\ Suffix(lp_info[2]) = "_b"
    /\ lp_images_dir[lp_info[2]].size # 0

\* C9: avb_verify is called at most once, on vbmeta.img, after avb_pack has
\* succeeded on every partition of the pack order and before lp_pack; the
\* container is only assembled after it succeeded, and a failed
\* verification ends the run with nothing of the container built.
C9_VerifyOnceAfterPacking ==
    action = "pack" =>
        /\ Cardinality(CallsOf("avb_verify")) <= 1
        /\ \A v \in CallsOf("avb_verify") :
            /\ calls[v].arg = "vbmeta"
            /\ \A i \in CallsOf("avb_pack") : i < v /\ calls[i].ok
            /\ Cardinality(CallsOf("avb_pack")) = Len(avb_pack_order)
            /\ {calls[i].arg : i \in CallsOf("avb_pack")} = Range(avb_pack_order)
            /\ \A l \in CallsOf("lp_pack") : v < l
            /\ ~calls[v].ok =>
                /\ pc = "error"
                /\ CallsOf("lp_pack") = {}
                /\ lp_info = <<>>
                /\ DOMAIN lp_images_dir = {}
                /\ "super" \notin out_images
        /\ (\/ pc \in {"lp_start", "lp_loop", "done"}
            \/ CallsOf("lp_pack") # {}
            \/ lp_info # <<>>
            \/ DOMAIN lp_images_dir # {}
            \/ "super" \in out_images) =>
                \E v \in CallsOf("avb_verify") : calls[v].ok

C9_Witness ==
    /\ action = "pack"
    /\ pc = "done"
    /\ Len(avb_pack_order) >= 2
    /\ "super" \in out_images
    /\ \E v \in CallsOf("avb_verify") : calls[v].ok

\* C10: when a descriptor of the input names a partition without an
\* avb.toml, the run ends in an error before avb_pack is called on any
\* partition.
C10_MissingReferenceAbortsFirst ==
    (action = "pack"
     /\ \E n \in DOMAIN input_files : ~(Referenced(n) \subseteq DOMAIN input_files)) =>
        /\ pack_calls = <<>>
        /\ pc \in {"pack_start", "error"}

\* a codec operation that failed, the validity probe excepted
FailedCalls == {i \in DOMAIN calls : ~calls[i].ok /\ calls[i].op # "avb_info"}

\* C11: no step is taken once a run has ended in an error; a failed codec
\* operation (a failed validity probe excepted) is the last operation of
\* the run and leaves the run in the error state; a run that records an
\* error never reaches "done".
C11_FailFast ==
    [][/\ pc # "error"
       /\ \A i \in DOMAIN calls : i \in DOMAIN calls' /\ calls'[i] = calls[i]
       /\ (\E i \in DOMAIN calls' : ~calls'[i].ok /\ calls'[i].op # "avb_info") =>
            /\ pc' = "error"
            /\ err' = "CalledProcessError"
            /\ ~calls'[Len(calls')].ok
            /\ \A i \in 1..(Len(calls') - 1) : calls'[i].ok \/ calls'[i].op = "avb_info"
       /\ err' # "none" <=> pc' = "error"
       /\ pc' = "done" => err' = "none"
      ]_vars

C11_Witness ==
    /\ pc = "error"
    /\ err = "CalledProcessError"
    /\ Len(calls) >= 3
    /\ FailedCalls = {Len(calls)}

\* the outputs of VersionOutputs below 3.19.0, and those at or above it
BelowMinimum == {"avbroot 2.20.0\n", "avbroot 3.18.9\n"}
AtLeastMinimum == {"avbroot 3.19.0\n", "avbroot 4.0.0\n"}

\* nothing of the run's files or local state has been created or changed
Untouched ==
    /\ files = input_files
    /\ out_images = {}
    /\ pack_calls = <<>>
    /\ avb_pack_order = <<>>
    /\ lp_info = <<>>
    /\ DOMAIN lp_images_dir = {}
    /\ DOMAIN avb_descriptors = {}

\* C12: the step out of main finds nothing called or touched, makes the
\* version query its only call and touches nothing; on a reported version
\* below 3.19.0 it ends the run with ValueError, on one at or above it it
\* moves the run, without an error, to the start of its subcommand; no
\* later step queries the version again, and no step follows the error.
C12_VersionGate ==
    [][IF pc = "main"
       THEN /\ calls = <<>>
            /\ Untouched
            /\ Len(calls') = 1
            /\ calls'[1].op = "avbroot_version"
            /\ Untouched'
            /\ calls'[1].ok => calls'[1].arg \in BelowMinimum \cup AtLeastMinimum
            /\ (calls'[1].ok /\ calls'[1].arg \in BelowMinimum) =>
                /\ pc' = "error"
                /\ err' = "ValueError"
            /\ (calls'[1].ok /\ calls'[1].arg \in AtLeastMinimum) =>
                /\ err' = "none"
                /\ pc' = IF action = "unpack" THEN "unpack_vbmeta" ELSE "pack_start"
       ELSE /\ pc # "error"
            /\ calls # <<>>
            /\ calls[1].op = "avbroot_version"
            /\ calls[1].ok
            /\ calls[1].arg \in AtLeastMinimum
            /\ \A i \in (Len(calls) + 1)..Len(calls') : calls'[i].op # "avbroot_version"
      ]_vars

C12_Witness ==
    /\ calls # <<>>
    /\ calls[1].ok
    /\ calls[1].arg = "avbroot 3.18.9\n"
    /\ pc = "error"
    /\ err = "ValueError"

\* the calls that join or unpack the container, probe a slot, generate
\* metadata, or unpack an image that is not one of vbmeta_images
AfterVbmeta ==
    {i \in DOMAIN calls :
        \/ calls[i].op \in {"sparse_unpack", "lp_unpack", "avb_info", "avb_generate_metadata"}
        \/ calls[i].op = "avb_unpack" /\ calls[i].arg \notin vbmeta_images}

\* the descriptors with a partition name in the avb.toml of a vbmeta image
NamedIn(v) ==
    LET ds == files[v].header.descriptors
    IN {ds[i] : i \in {j \in DOMAIN ds : "partition_name" \in DOMAIN ds[j]}}

\* C13: a call that joins or unpacks the container, probes a slot or
\* generates metadata comes after a successful avb_unpack of every vbmeta
\* image; and once the run is past the loop over the vbmeta images, every
\* one of them has its avb.toml and every partition name its descriptors
\* carry is a key of avb_descriptors, mapped to one of those descriptors.
C13_VbmetaFirst ==
    action = "unpack" =>
        /\ \A i \in AfterVbmeta : \A v \in vbmeta_images :
              \E j \in 1..(i - 1) :
                  calls[j].op = "avb_unpack" /\ calls[j].arg = v /\ calls[j].ok
        /\ (AfterVbmeta # {} \/ pc \in {"unpack_join", "unpack_slots", "unpack_rest", "done"}) =>
              /\ vbmeta_images \subseteq DOMAIN files
              /\ \A v \in vbmeta_images : \A d \in NamedIn(v) :
                    /\ d.partition_name \in DOMAIN avb_descriptors
                    /\ avb_descriptors[d.partition_name] \in
                          {e \in UNION {NamedIn(w) : w \in vbmeta_images} :
                              e.partition_name = d.partition_name}

C13_Witness ==
    /\ action = "unpack"
    /\ vbmeta_images = {"vbmeta", "vbmeta_system"}
    /\ DOMAIN avb_descriptors = {"boot", "vbmeta_system"}
    /\ \E i \in AfterVbmeta : calls[i].op = "avb_generate_metadata"

\* C14: the avb.toml generated for a partition has flags 0 and one
\* descriptor, the one avb_descriptors holds for the partition, naming it;
\* when that descriptor is a Hash or HashTree descriptor the algorithm is
\* "None" and hash, signature and public key are empty.
C14_UnsignedTemplate ==
    action = "unpack" =>
        \A i \in CallsOf("avb_generate_metadata") :
            LET name == calls[i].arg
                header == files[name].header
            IN /\ header.flags = 0
               /\ Len(header.descriptors) = 1
               /\ header.descriptors[1] = avb_descriptors[name]
               /\ header.descriptors[1].partition_name = name
               /\ header.descriptors[1].type \in {"Hash", "HashTree"} =>
                    /\ header.algorithm_type = "None"
                    /\ header.hash = ""
                    /\ header.signature = ""
                    /\ header.public_key = ""

C14_Witness ==
    /\ action = "unpack"
    /\ \E i \in CallsOf("avb_generate_metadata") :
        /\ files[calls[i].arg].header.descriptors[1].type = "HashTree"
        /\ files[calls[i].arg].header.algorithm_type = "None"

\* the file the slot loop of pack has to leave for a slot: the packed image
\* of the partition for an _a slot, an empty file for a _b slot
SlotFile(s) == IF Suffix(s) = "_a" THEN Stem(s) ELSE ""

\* C15: a step of the slot loop of pack calls nothing; on an _a slot it
\* moves the packed image of the partition to the slot's file, on a _b slot
\* it creates an empty file, and on any other slot it ends the run with
\* ValueError; lp_pack is only called when the loop is over and every slot
\* of the manifest has its file.
C15_ContainerAssembly ==
    [][/\ (action = "pack" /\ pc = "lp_loop" /\ lp_idx <= Len(lp_info)) =>
            LET s == lp_info[lp_idx]
            IN /\ calls' = calls
               /\ (Suffix(s) = "_a" /\ Stem(s) \in out_images) =>
                    /\ DOMAIN lp_images_dir' = DOMAIN lp_images_dir \cup {s}
                    /\ lp_images_dir'[s] = Stem(s)
                    /\ out_images' = out_images \ {Stem(s)}
                    /\ lp_idx' = lp_idx + 1
                    /\ pc' = "lp_loop"
               /\ Suffix(s) = "_b" =>
                    /\ DOMAIN lp_images_dir' = DOMAIN lp_images_dir \cup {s}
                    /\ lp_images_dir'[s] = ""
                    /\ out_images' = out_images
                    /\ lp_idx' = lp_idx + 1
                    /\ pc' = "lp_loop"
               /\ Suffix(s) \notin {"_a", "_b"} =>
                    /\ pc' = "error"
                    /\ err' = "ValueError"
                    /\ lp_images_dir' = lp_images_dir
               /\ \A t \in DOMAIN lp_images_dir :
                    t \in DOMAIN lp_images_dir' /\ lp_images_dir'[t] = lp_images_dir[t]
       /\ (action = "pack" /\ Len(calls') > Len(calls) /\ calls'[Len(calls')].op = "lp_pack") =>
            /\ pc = "lp_loop"
            /\ lp_idx > Len(lp_info)
            /\ DOMAIN lp_images_dir = Range(lp_info)
            /\ \A t \in Range(lp_info) : lp_images_dir[t] = SlotFile(t)
      ]_vars

C15_Witness ==
    /\ action = "pack"
    /\ pc = "done"
    /\ Len(lp_info) = 2
    /\ \E i, j \in DOMAIN lp_info : Suffix(lp_info[i]) = "_a" /\ Suffix(lp_info[j]) = "_b"
    /\ calls[Len(calls)].op = "lp_pack"
    /\ calls[Len(calls)].ok

\* the partitions avb_pack has succeeded on
Packed == {calls[i].arg : i \in {j \in CallsOf("avb_pack") : calls[j].ok}}

\* C16: avb_descriptors and avb_public_keys hold entries for packed
\* partitions only; a packed partition has a public key recorded exactly
\* when its rewritten avb.toml has an algorithm other than "None", and the
\* key is the one of that avb.toml; a step never removes or changes an
\* entry, and it adds entries for no partition but the one it has packed.
C16_SignedStateGrows ==
    [][action = "pack" =>
        /\ \A n \in DOMAIN avb_descriptors :
              n \in DOMAIN avb_descriptors' /\ avb_descriptors'[n] = avb_descriptors[n]
        /\ \A n \in DOMAIN avb_public_keys :
              n \in DOMAIN avb_public_keys' /\ avb_public_keys'[n] = avb_public_keys[n]
        /\ \A n \in (DOMAIN avb_descriptors' \ DOMAIN avb_descriptors)
                     \cup (DOMAIN avb_public_keys' \ DOMAIN avb_public_keys) :
              /\ Len(calls') = Len(calls) + 1
              /\ calls'[Len(calls')] = [op |-> "avb_pack", arg |-> n, ok |-> TRUE]
        /\ (DOMAIN avb_descriptors' \cup DOMAIN avb_public_keys') \subseteq Packed'
        /\ \A n \in Packed' :
              /\ n \in DOMAIN avb_public_keys' <=> files'[n].header.algorithm_type # "None"
              /\ n \in DOMAIN avb_public_keys' =>
                    avb_public_keys'[n] = files'[n].header.public_key
      ]_vars

C16_Witness ==
    /\ action = "pack"
    /\ Cardinality(Packed) = 3
    /\ Cardinality(DOMAIN avb_public_keys) = 2
    /\ DOMAIN avb_descriptors = {"boot"}
    /\ "boot" \notin DOMAIN avb_public_keys

\* the name begins with "vbmeta"
VbmetaClass(n) == Len(n) >= 6 /\ SubSeq(n, 1, 6) = "vbmeta"

\* C17: a step that hands a partition whose name does not begin with
\* "vbmeta" to avb_pack hands it the avb.toml of the input, descriptor list
\* and flags as they were, whatever its descriptors name.
C17_OnlyVbmetaPropagated ==
    [][(action = "pack" /\ Len(pack_calls') > Len(pack_calls)) =>
        LET c == pack_calls'[Len(pack_calls')]
        IN ~VbmetaClass(c.name) =>
            /\ c.info.header.descriptors = input_files[c.name].header.descriptors
            /\ c.info = files[c.name]
            /\ c.info = input_files[c.name]
      ]_vars

C17_Witness ==
    \E k \in DOMAIN pack_calls :
        LET P == pack_calls[k].name
            input == input_files[P].header.descriptors
        IN /\ ~VbmetaClass(P)
           /\ \E i \in DOMAIN input :
                /\ "partition_name" \in DOMAIN input[i]
                /\ input[i].partition_name \in PackedBefore(k)
                /\ input[i].partition_name \in DOMAIN avb_public_keys
                /\ input[i].public_key # avb_public_keys[input[i].partition_name]

\* the calls of avb_pack on the partition n
PacksOf(n) == {i \in CallsOf("avb_pack") : calls[i].arg = n}

\* every avb_pack call is on a partition with an avb.toml in the input, no
\* partition is handed to avb_pack twice, and in a run that is done every
\* partition of the input has been packed
PackedOnce ==
    /\ \A i \in CallsOf("avb_pack") : calls[i].arg \in DOMAIN input_files
    /\ \A n \in DOMAIN input_files : Cardinality(PacksOf(n)) <= 1
    /\ pc = "done" =>
          \A n \in DOMAIN input_files :
              /\ Cardinality(PacksOf(n)) = 1
              /\ \A i \in PacksOf(n) : calls[i].ok

\* C18: after every step of a pack run, avb_pack has been called on
\* partitions with an avb.toml in the input only and on none of them twice;
\* when the run is done, it has been called, with success, exactly once on
\* every partition of the input.
C18_EveryPartitionPackedOnce ==
    [][action = "pack" => PackedOnce']_vars

C18_Witness ==
    /\ action = "pack"
    /\ pc = "done"
    /\ DOMAIN input_files = {"boot", "vbmeta", "vbmeta_system"}
    /\ Cardinality(CallsOf("avb_pack")) = 3

\* the partition names the descriptors of name's current avb.toml carry
NamedBy(name) ==
    LET ds == files[name].header.descriptors
    IN {ds[i].partition_name : i \in {j \in DOMAIN ds : "partition_name" \in DOMAIN ds[j]}}

\* neither a public key nor a descriptor is recorded for the partition
NoSignedState(c) == c \notin DOMAIN avb_public_keys /\ c \notin DOMAIN avb_descriptors

\* C20: when the pack loop is at a vbmeta image one of whose descriptors
\* names a partition with neither a public key nor a descriptor recorded,
\* the step ends the run with KeyError, calls nothing and writes nothing;
\* such a partition is the image itself or a packed, unsigned partition
\* whose avb.toml has no descriptor of its own name; and a vbmeta image is
\* only handed to avb_pack when every partition its descriptors name is
\* another, packed partition that is signed or has its own descriptor.
C20_UnrecordedChildAborts ==
    [][(action = "pack" /\ pc = "pack_loop" /\ idx <= Len(avb_pack_order)) =>
        LET P == avb_pack_order[idx]
        IN (VbmetaClass(P) /\ P \in DOMAIN files) =>
            /\ (\E c \in NamedBy(P) : NoSignedState(c)) =>
                  /\ pc' = "error"
                  /\ err' = "KeyError"
                  /\ UNCHANGED <<calls, pack_calls, files, out_images,
                                 avb_descriptors, avb_public_keys>>
            /\ \A c \in NamedBy(P) :
                  NoSignedState(c) <=>
                      \/ c = P
                      \/ /\ c \in Packed
                         /\ files[c].header.algorithm_type = "None"
                         /\ OwnIndexes(c) = {}
            /\ Len(pack_calls') > Len(pack_calls) =>
                  \A c \in NamedBy(P) :
                      /\ c # P
                      /\ c \in Packed
                      /\ files[c].header.algorithm_type # "None" \/ OwnIndexes(c) # {}
      ]_vars

C20_Witness ==
    /\ action = "pack"
    /\ pc = "error"
    /\ err = "KeyError"
    /\ idx <= Len(avb_pack_order)
    /\ avb_pack_order[idx] = "vbmeta"
    /\ "boot" \in NamedBy("vbmeta")
    /\ "boot" \in Packed
    /\ NoSignedState("boot")

\* the calls that gave the partition n an avb.toml: a successful avb_unpack
\* of n.img or of the slot n_a, or avb_generate_metadata for n
Productions(n) ==
    {i \in DOMAIN calls :
        /\ calls[i].ok
        /\ \/ calls[i].op = "avb_unpack" /\ calls[i].arg \in {n, n \o "_a"}
           \/ calls[i].op = "avb_generate_metadata" /\ calls[i].arg = n}

\* C19: no partition is given an avb.toml by more than one call;
\* avb_generate_metadata directly follows a failed validity probe of the
\* partition's _a slot; and when an unpack run is done, every partition
\* named by a descriptor of a vbmeta image has an avb.toml that exactly one
\* call produced.
C19_OneRecordPerPartition ==
    action = "unpack" =>
        /\ \A i \in DOMAIN calls :
              (calls[i].ok /\ calls[i].op \in {"avb_unpack", "avb_generate_metadata"}) =>
                  \A n \in {calls[i].arg, Stem(calls[i].arg)} :
                      Cardinality(Productions(n)) <= 1
        /\ \A i \in CallsOf("avb_generate_metadata") :
              /\ i > 1
              /\ calls[i - 1] = [op |-> "avb_info", arg |-> calls[i].arg \o "_a", ok |-> FALSE]
        /\ pc = "done" =>
              \A n \in DOMAIN avb_descriptors :
                  /\ n \in DOMAIN files
                  /\ Cardinality(Productions(n)) = 1

====
